---- MODULE Spec2Model ----
(***************************************************************************)
(* vBase CLI (vbasecli/vbase.py, vbasecli/config.py): the commitment-      *)
(* service command group and its add-object / verify-object sub-commands.  *)
(*                                                                         *)
(* Strings are sequences of one-character strings, so that strip(),        *)
(* split(), the "0x" prefixing and the CID pattern are computed as the     *)
(* code computes them.  Python's None is the one-element sequence NONE,    *)
(* which no real string equals.                                            *)
(*                                                                         *)
(* The external vbase library (VBaseClient, the commitment services, the   *)
(* IndexingService) is not part of the program.  Its constructors and      *)
(* calls are taken to return.  Under Spec and SpecConfig what              *)
(* find_objects, verify_user_object and add_object return is any value of  *)
(* the bounded sets below; under SpecService they answer from the          *)
(* commitments recorded so far.                                            *)
(*                                                                         *)
(* Spec       one invocation after another, few configurations, all the    *)
(*            sub-command inputs.                                          *)
(* SpecConfig one invocation after another, all the configurations, few    *)
(*            sub-command inputs.                                          *)
(* SpecService invocations against a service that keeps what was added.    *)
(***************************************************************************)
EXTENDS Integers, Sequences, FiniteSets, TLC

VARIABLES
    pc,            \* "start" | "group_done" | "exit": position of the invocation
    cli_flags,     \* commitment_service: kwargs as parsed from the command line
    environ,       \* load_config: the five environment variables as read
    config_file,   \* load_config: the five keys of the JSON config file as read
    kwargs,        \* commitment_service: kwargs after the merge loop
    ctx_obj,       \* ctx.obj["vbc"]: the constructed client, or NoClient
    cmd,           \* the sub-command named on the command line, once parsed
    ran,           \* whether that sub-command's callback was entered
    args,          \* the sub-command's options and the stdin text
    ext,           \* what the external client returned in this invocation
    calls,         \* the external client's methods called, in order
    status,        \* "running" | "ok" | "usage" | "fail" | "exception"
    output,        \* the messages printed or raised, in order
    service,       \* SpecService: the commitments the service has recorded
    clock,         \* SpecService: the service's time, in seconds
    held           \* SpecService: the receipts add-object has printed

vars == <<pc, cli_flags, environ, config_file, kwargs, ctx_obj, cmd, ran,
          args, ext, calls, status, output, service, clock, held>>

----------------------------------------------------------------------------
(* Bounds of the model. *)

\* Timestamps are whole seconds 0 .. MaxTime.
MaxTime == 2

\* find_objects returns at most MaxObjects commitments.
MaxObjects == 2

\* At most MaxConfigured of the 15 (setting, level) slots hold a value.
MaxConfigured == 3

\* SpecService: the service records at most MaxCommitments commitments.
MaxCommitments == 3

(* Program constants. *)

\* {64} in the CID pattern.
CidLen == 64

\* pd.Timedelta("1s"), the default tolerance.
DefaultTolSeconds == 1

----------------------------------------------------------------------------
(* Strings. *)

NONE == <<"None">>

HexDigits == {"0","1","2","3","4","5","6","7","8","9",
              "a","b","c","d","e","f","A","B","C","D","E","F"}

Digits == {"0","1","2","3","4","5","6","7","8","9"}

Whitespace == {" ", "\t", "\n", "\r"}

\* Python truthiness of an optional string: None and "" are falsy.
Truthy(s) == s # NONE /\ s # <<>>

Rep(c, n) == [i \in 1..n |-> c]

\* str.strip(): without the leading and the trailing whitespace.
strip(s) ==
    IF \A i \in 1..Len(s) : s[i] \in Whitespace THEN <<>>
    ELSE SubSeq(s,
                CHOOSE i \in 1..Len(s) :
                    s[i] \notin Whitespace
                    /\ \A j \in 1..(i - 1) : s[j] \in Whitespace,
                CHOOSE i \in 1..Len(s) :
                    s[i] \notin Whitespace
                    /\ \A j \in (i + 1)..Len(s) : s[j] \in Whitespace)

\* str.startswith(p)
startswith(s, p) == Len(s) >= Len(p) /\ SubSeq(s, 1, Len(p)) = p

\* str.split(): the maximal runs of non-whitespace characters, in order.
TokenStarts(s) ==
    {i \in 1..Len(s) :
        s[i] \notin Whitespace /\ (i = 1 \/ s[i - 1] \in Whitespace)}

TokenEnd(s, i) ==
    CHOOSE j \in i..Len(s) :
        /\ (j = Len(s) \/ s[j + 1] \in Whitespace)
        /\ \A k \in i..j : s[k] \notin Whitespace

RECURSIVE TokensFrom(_, _)
TokensFrom(s, starts) ==
    IF starts = {} THEN <<>>
    ELSE LET i == CHOOSE i \in starts : \A j \in starts : i <= j
         IN <<SubSeq(s, i, TokenEnd(s, i))>> \o TokensFrom(s, starts \ {i})

split(s) == TokensFrom(s, TokenStarts(s))

----------------------------------------------------------------------------
(* CID validation and extraction. *)

\* Mutant of MatchesCidPattern: the pattern without its "$".
MatchesCidPattern_Unanchored(s) ==
    /\ Len(s) >= CidLen + 2
    /\ s[1] = "0" /\ s[2] = "x"
    /\ \A i \in 3..(CidLen + 2) : s[i] \in HexDigits

\* re.match(r"^0x[0-9a-fA-F]{64}$", s): "$" also matches before a final "\n".
MatchesCidPattern(s) ==
    LET core == IF s # <<>> /\ s[Len(s)] = "\n" /\ Len(s) = CidLen + 3
                THEN SubSeq(s, 1, Len(s) - 1) ELSE s
    IN /\ Len(core) = CidLen + 2
       /\ core[1] = "0" /\ core[2] = "x"
       /\ \A i \in 3..(CidLen + 2) : core[i] \in HexDigits

MsgUndefinedCid == "Undefined object CID value."
MsgInvalidCid == "Invalid object CID value."
MsgNeedCid == "You must specify either --object-cid or --object-cid-stdin."
MsgUndefinedTs == "Undefined timestamp value."
MsgInvalidTs == "Invalid timestamp value."
MsgNeedTs == "You must specify either --timestamp or --timestamp-stdin."
MsgNeedUrl == "You must specify either --vb-cs-node-rpc-url or --vb-forwarder-url."
MsgNoClient == "VBaseClient is not defined. Check the configuration."
MsgConstraint == "Constraint violated."
MsgIndexError == "IndexError: list index out of range"
MsgValueError == "ValueError"
MsgAdded == "Added object ="
MsgNoObjects == "No matching objects found."
MsgCommitmentFailed == "Commitment verification failed."
MsgTimestampFailed == "Timestamp verification failed."
MsgFound == "Found object commitment = "
MsgSucceeded == "Timestamp verification succeeded."

\* A helper's outcome: err is "none", "usage" (click.UsageError) or
\* "exception" (an exception click does not handle).
Raised(kind, m) == [err |-> kind, msg |-> m, value |-> NONE, rest |-> <<>>]
Returned(v, r) == [err |-> "none", msg |-> "", value |-> v, rest |-> r]

verify_object_cid_value(s) ==
    IF ~Truthy(s) THEN Raised("usage", MsgUndefinedCid)
    ELSE IF ~MatchesCidPattern(s) THEN Raised("usage", MsgInvalidCid)
    ELSE Returned(s, <<>>)

\* Mutant of get_object_cid: the value is validated with the prefix, and
\* returned without it.
get_object_cid_Unprefixed(object_cid, object_cid_stdin, l_stdin_text_stream) ==
    IF ~Truthy(object_cid) /\ ~object_cid_stdin
    THEN Raised("usage", MsgNeedCid)
    ELSE IF ~Truthy(object_cid) /\ l_stdin_text_stream = <<>>
    THEN Raised("exception", MsgIndexError)
    ELSE
      LET fromFlag == Truthy(object_cid)
          raw == IF fromFlag THEN object_cid
                 ELSE strip(l_stdin_text_stream[1])
          rest == IF fromFlag THEN l_stdin_text_stream
                  ELSE Tail(l_stdin_text_stream)
          stripped == strip(raw)
          prefixed == IF startswith(stripped, <<"0", "x">>) THEN stripped
                      ELSE <<"0", "x">> \o stripped
          checked == verify_object_cid_value(prefixed)
      IN IF ~Truthy(raw) THEN Raised("usage", MsgUndefinedCid)
         ELSE IF checked.err # "none" THEN checked
         ELSE Returned(stripped, rest)

get_object_cid(object_cid, object_cid_stdin, l_stdin_text_stream) ==
    IF ~Truthy(object_cid) /\ ~object_cid_stdin
    THEN Raised("usage", MsgNeedCid)
    ELSE IF ~Truthy(object_cid) /\ l_stdin_text_stream = <<>>
    THEN Raised("exception", MsgIndexError)
    ELSE
      LET fromFlag == Truthy(object_cid)
          raw == IF fromFlag THEN object_cid
                 ELSE strip(l_stdin_text_stream[1])
          rest == IF fromFlag THEN l_stdin_text_stream
                  ELSE Tail(l_stdin_text_stream)
          stripped == strip(raw)
          prefixed == IF startswith(stripped, <<"0", "x">>) THEN stripped
                      ELSE <<"0", "x">> \o stripped
          checked == verify_object_cid_value(prefixed)
      IN IF ~Truthy(raw) THEN Raised("usage", MsgUndefinedCid)
         ELSE IF checked.err # "none" THEN checked
         ELSE Returned(prefixed, rest)

----------------------------------------------------------------------------
(* Timestamps and tolerances.  A timestamp text is a decimal number of     *)
(* seconds; a tolerance text is a decimal number followed by "s".          *)

DigitChars == <<"0","1","2","3","4","5","6","7","8","9">>

DigitVal(c) == (CHOOSE i \in 1..10 : DigitChars[i] = c) - 1

IsNumber(s) == s # <<>> /\ \A i \in 1..Len(s) : s[i] \in Digits

RECURSIVE ParseNumber(_)
ParseNumber(s) ==
    IF s = <<>> THEN 0
    ELSE 10 * ParseNumber(SubSeq(s, 1, Len(s) - 1)) + DigitVal(s[Len(s)])

RECURSIVE FormatNumber(_)
FormatNumber(n) ==
    IF n < 10 THEN <<DigitChars[n + 1]>>
    ELSE FormatNumber(n \div 10) \o <<DigitChars[(n % 10) + 1]>>

\* pd.Timestamp(s) raises ValueError unless s parses.
TimestampParses(s) == IsNumber(s)
pd_Timestamp(s) == ParseNumber(s)

\* pd.Timedelta(s) raises ValueError unless s parses.
TimedeltaParses(s) ==
    Len(s) >= 2 /\ s[Len(s)] = "s" /\ IsNumber(SubSeq(s, 1, Len(s) - 1))
pd_Timedelta(s) == ParseNumber(SubSeq(s, 1, Len(s) - 1))

verify_timestamp_value(s) ==
    IF ~Truthy(s) THEN Raised("usage", MsgUndefinedTs)
    ELSE IF ~TimestampParses(s) THEN Raised("usage", MsgInvalidTs)
    ELSE Returned(s, <<>>)

get_timestamp(timestamp, timestamp_stdin, l_stdin_text_stream) ==
    IF ~Truthy(timestamp) /\ ~timestamp_stdin
    THEN Raised("usage", MsgNeedTs)
    ELSE IF ~Truthy(timestamp) /\ l_stdin_text_stream = <<>>
    THEN Raised("exception", MsgIndexError)
    ELSE
      LET fromFlag == Truthy(timestamp)
          timestamp_value_str == IF fromFlag THEN timestamp
                                 ELSE strip(l_stdin_text_stream[1])
          rest == IF fromFlag THEN l_stdin_text_stream
                  ELSE Tail(l_stdin_text_stream)
          checked == verify_timestamp_value(timestamp_value_str)
      IN IF checked.err # "none" THEN checked
         ELSE Returned(timestamp_value_str, rest)

----------------------------------------------------------------------------
(* Configuration: flags, environment variables and the config file. *)

Settings == {"vb_api_key", "vb_cs_address", "vb_cs_node_rpc_url",
             "vb_cs_private_key", "vb_forwarder_url"}

EnvVars == {"VBASE_API_KEY", "VBASE_COMMITMENT_SERVICE_ADDRESS",
            "VBASE_COMMITMENT_SERVICE_NODE_RPC_URL",
            "VBASE_COMMITMENT_SERVICE_PRIVATE_KEY", "VBASE_FORWARDER_URL"}

args_config_dict ==
    [k \in Settings |->
        CASE k = "vb_api_key" -> "VBASE_API_KEY"
          [] k = "vb_cs_address" -> "VBASE_COMMITMENT_SERVICE_ADDRESS"
          [] k = "vb_cs_node_rpc_url" -> "VBASE_COMMITMENT_SERVICE_NODE_RPC_URL"
          [] k = "vb_cs_private_key" -> "VBASE_COMMITMENT_SERVICE_PRIVATE_KEY"
          [] k = "vb_forwarder_url" -> "VBASE_FORWARDER_URL"]

\* Nothing supplied, at any level.
NoFlags == [k \in Settings |-> NONE]
NoEnv == [v \in EnvVars |-> NONE]

\* os.getenv(var_name, config.get(var_name)) for each of the five names.
load_config(env, file) ==
    [v \in EnvVars |-> IF env[v] # NONE THEN env[v] ELSE file[v]]

\* for k, v in args_config_dict.items(): if not kwargs[k]: kwargs[k] = config[v]
MergeKwargs(flags, config) ==
    [k \in Settings |->
        IF ~Truthy(flags[k]) THEN config[args_config_dict[k]] ELSE flags[k]]

\* cloup counts a string option as set when its value is not None.
IsSet(v) == v # NONE

\* cloup.constraints.all_or_none over the options of a group.
all_or_none(flags, group) ==
    Cardinality({k \in group : IsSet(flags[k])}) \in {0, Cardinality(group)}

GroupConstraintsHold(flags) ==
    /\ all_or_none(flags, {"vb_cs_node_rpc_url", "vb_cs_address"})
    /\ all_or_none(flags, {"vb_forwarder_url", "vb_api_key"})
    /\ all_or_none(flags, {"vb_cs_private_key"})

NoClient ==
    [kind |-> "none", node_rpc_url |-> NONE,
     commitment_service_address |-> NONE, forwarder_url |-> NONE,
     api_key |-> NONE, private_key |-> NONE]

\* VBaseClient(Web3HTTPCommitmentService(...))
Web3HTTPCommitmentService(node_rpc_url, commitment_service_address, private_key) ==
    [kind |-> "node", node_rpc_url |-> node_rpc_url,
     commitment_service_address |-> commitment_service_address,
     forwarder_url |-> NONE, api_key |-> NONE, private_key |-> private_key]

\* VBaseClient(ForwarderCommitmentService(...))
ForwarderCommitmentService(forwarder_url, api_key, private_key) ==
    [kind |-> "forwarder", node_rpc_url |-> NONE,
     commitment_service_address |-> NONE, forwarder_url |-> forwarder_url,
     api_key |-> api_key, private_key |-> private_key]

\* Mutant of BuildClient: the forwarder branch taken without looking at the
\* forwarder URL.
BuildClient_ElseForwarder(kw) ==
    IF Truthy(kw["vb_cs_node_rpc_url"])
    THEN Web3HTTPCommitmentService(kw["vb_cs_node_rpc_url"],
                                   kw["vb_cs_address"],
                                   kw["vb_cs_private_key"])
    ELSE ForwarderCommitmentService(kw["vb_forwarder_url"],
                                    kw["vb_api_key"],
                                    kw["vb_cs_private_key"])

\* The client commitment_service builds from the merged kwargs, NoClient
\* when it raises the usage error instead.
BuildClient(kw) ==
    IF Truthy(kw["vb_cs_node_rpc_url"])
    THEN Web3HTTPCommitmentService(kw["vb_cs_node_rpc_url"],
                                   kw["vb_cs_address"],
                                   kw["vb_cs_private_key"])
    ELSE IF Truthy(kw["vb_forwarder_url"])
    THEN ForwarderCommitmentService(kw["vb_forwarder_url"],
                                    kw["vb_api_key"],
                                    kw["vb_cs_private_key"])
    ELSE NoClient

(* The configurations an invocation may meet: each slot is absent (None),  *)
(* empty ("") or holds a value that names its level.                       *)
Levels == {"flag", "env", "file"}
LevelValue(l) ==
    CASE l = "flag" -> <<"F">> [] l = "env" -> <<"E">> [] l = "file" -> <<"C">>

Slots == Settings \X Levels

SlotChoices ==
    {c \in SUBSET Slots : Cardinality(c) <= MaxConfigured}

SlotValue(chosen, fill, k, l) ==
    IF <<k, l>> \notin chosen THEN NONE
    ELSE IF fill[<<k, l>>] THEN LevelValue(l) ELSE <<>>

SettingOf(v) == CHOOSE k \in Settings : args_config_dict[k] = v

Configuration(chosen, fill) ==
    [flags |-> [k \in Settings |-> SlotValue(chosen, fill, k, "flag")],
     env |-> [v \in EnvVars |-> SlotValue(chosen, fill, SettingOf(v), "env")],
     file |-> [v \in EnvVars |-> SlotValue(chosen, fill, SettingOf(v), "file")]]

\* Spec: a complete node service, nothing at all, and a node URL without
\* its address, all given as flags.
FlagConfigurations ==
    {[flags |-> f, env |-> NoEnv, file |-> NoEnv] :
        f \in {[NoFlags EXCEPT !["vb_cs_node_rpc_url"] = <<"F">>,
                                !["vb_cs_address"] = <<"F">>,
                                !["vb_cs_private_key"] = <<"F">>],
               NoFlags,
               [NoFlags EXCEPT !["vb_cs_node_rpc_url"] = <<"F">>]}}

\* SpecService: two complete node configurations that differ in the key.
ServiceConfigurations ==
    {[flags |-> [NoFlags EXCEPT !["vb_cs_node_rpc_url"] = <<"F">>,
                                !["vb_cs_address"] = <<"F">>,
                                !["vb_cs_private_key"] = key],
      env |-> [NoEnv EXCEPT !["VBASE_COMMITMENT_SERVICE_PRIVATE_KEY"] = <<"E">>],
      file |-> NoEnv] : key \in {NONE, <<"F">>}}

NoArgs ==
    [object_cid |-> NONE, object_cid_stdin |-> FALSE, timestamp |-> NONE,
     timestamp_stdin |-> FALSE, timestamp_tol |-> NONE, stdin |-> <<>>]

NoReceipt == [objectCid |-> NONE, timestamp |-> NONE]
NoExt == [l_objects |-> <<>>, ret |-> "none", receipt |-> NoReceipt]

Init ==
    /\ pc = "start"
    /\ cli_flags = NoFlags
    /\ environ = NoEnv
    /\ config_file = NoEnv
    /\ kwargs = NoFlags
    /\ ctx_obj = NoClient
    /\ cmd = "none"
    /\ ran = FALSE
    /\ args = NoArgs
    /\ ext = NoExt
    /\ calls = <<>>
    /\ status = "running"
    /\ output = <<>>
    /\ service = <<>>
    /\ clock = 0
    /\ held = {}

\* The commitment_service group: option constraints, then its callback.
commitment_service(flags, env, file) ==
    /\ pc = "start"
    /\ cli_flags' = flags
    /\ UNCHANGED <<cmd, ran, args, ext, calls, service, clock, held>>
    /\ IF ~GroupConstraintsHold(flags)
       THEN /\ pc' = "exit"
            /\ status' = "usage"
            /\ output' = Append(output, MsgConstraint)
            /\ UNCHANGED <<environ, config_file, kwargs, ctx_obj>>
       ELSE LET merged == MergeKwargs(flags, load_config(env, file))
                vbc == BuildClient(merged)
            IN /\ environ' = env
               /\ config_file' = file
               /\ kwargs' = merged
               /\ ctx_obj' = vbc
               /\ IF vbc = NoClient
                  THEN /\ pc' = "exit"
                       /\ status' = "usage"
                       /\ output' = Append(output, MsgNeedUrl)
                  ELSE /\ pc' = "group_done"
                       /\ UNCHANGED <<status, output>>

----------------------------------------------------------------------------
(* The sub-commands. *)

\* Mutant of RequireExactlyOneCid: RequireAtLeast(1).
RequireAtLeastOneCid(object_cid, object_cid_stdin) ==
    IsSet(object_cid) \/ object_cid_stdin

\* cloup.constraints.RequireExactly(1) over --object-cid, --object-cid-stdin:
\* a flag option is set when it is true.
RequireExactlyOneCid(object_cid, object_cid_stdin) ==
    IsSet(object_cid) # object_cid_stdin

\* vbc.get_default_user(): the user the client's private key stands for.
get_default_user(vbc) == vbc.private_key

Call(method, user, cid, timestamp) ==
    [method |-> method, user |-> user, cid |-> cid, timestamp |-> timestamp]

\* How a callback ends: exit status kind, messages, calls made, values
\* returned by the external client.
Outcome(st, out, cs, e) == [status |-> st, output |-> out, calls |-> cs, ext |-> e]

\* Mutant of fail: the message is printed and nothing is raised.
fail_NoRaise(msg, cs, e) == Outcome("ok", <<msg>>, cs, e)

\* fail(msg): the message on stderr, then click.ClickException (exit status 1).
fail(msg, cs, e) == Outcome("fail", <<msg>>, cs, e)

\* The process's exit status: 0, 1 for a ClickException or an exception
\* click does not handle, 2 for a click.UsageError.
ExitCode(st) ==
    CASE st = "ok" -> 0
      [] st = "fail" -> 1
      [] st = "exception" -> 1
      [] st = "usage" -> 2
      [] OTHER -> -1

\* Mutant of add_object: the commitment is made before the CID is checked.
add_object_Unvalidated(vbc, object_cid, object_cid_stdin, stdin, receipt_timestamp) ==
    LET l_stdin_text_stream == split(stdin)
        c == get_object_cid(object_cid, object_cid_stdin, l_stdin_text_stream)
        raw == IF Truthy(object_cid) THEN object_cid ELSE NONE
        receipt == [objectCid |-> c.value, timestamp |-> receipt_timestamp]
    IN IF vbc = NoClient THEN Outcome("usage", <<MsgNoClient>>, <<>>, NoExt)
       ELSE IF c.err # "none"
       THEN Outcome(c.err, <<c.msg>>,
                    <<Call("add_object", NONE, raw, NONE)>>, NoExt)
       ELSE Outcome("ok", <<MsgAdded>>,
                    <<Call("add_object", NONE, c.value, NONE)>>,
                    [NoExt EXCEPT !.receipt = receipt])

\* The body of add_object, given the timestamp of the receipt the client's
\* add_object returns.
add_object(vbc, object_cid, object_cid_stdin, stdin, receipt_timestamp) ==
    LET l_stdin_text_stream == split(stdin)
        c == get_object_cid(object_cid, object_cid_stdin, l_stdin_text_stream)
        receipt == [objectCid |-> c.value, timestamp |-> receipt_timestamp]
    IN IF c.err # "none" THEN Outcome(c.err, <<c.msg>>, <<>>, NoExt)
       ELSE IF vbc = NoClient THEN Outcome("usage", <<MsgNoClient>>, <<>>, NoExt)
       ELSE Outcome("ok", <<MsgAdded>>,
                    <<Call("add_object", NONE, c.value, NONE)>>,
                    [NoExt EXCEPT !.receipt = receipt])

\* abs(pd.Timestamp(x["timestamp"]) - timestamp_value)
Abs(n) == IF n < 0 THEN -n ELSE n
Distance(x, timestamp_value) ==
    Abs(pd_Timestamp(x.timestamp) - pd_Timestamp(timestamp_value))

\* Mutant of closest_object: the key without abs().
closest_object_Signed(l_objects, timestamp_value) ==
    LET key(x) == pd_Timestamp(x.timestamp) - pd_Timestamp(timestamp_value)
        i == CHOOSE i \in 1..Len(l_objects) :
                /\ \A j \in 1..Len(l_objects) :
                      key(l_objects[i]) <= key(l_objects[j])
                /\ \A j \in 1..(i - 1) : key(l_objects[j]) > key(l_objects[i])
    IN l_objects[i]

\* Mutant of closest_object: on a tie the last element whose key is least.
closest_object_Last(l_objects, timestamp_value) ==
    LET i == CHOOSE i \in 1..Len(l_objects) :
                /\ \A j \in 1..Len(l_objects) :
                      Distance(l_objects[i], timestamp_value)
                          <= Distance(l_objects[j], timestamp_value)
                /\ \A j \in (i + 1)..Len(l_objects) :
                      Distance(l_objects[j], timestamp_value)
                          > Distance(l_objects[i], timestamp_value)
    IN l_objects[i]

\* min(l_objects, key=...): the first element whose key is least.
closest_object(l_objects, timestamp_value) ==
    LET i == CHOOSE i \in 1..Len(l_objects) :
                /\ \A j \in 1..Len(l_objects) :
                      Distance(l_objects[i], timestamp_value)
                          <= Distance(l_objects[j], timestamp_value)
                /\ \A j \in 1..(i - 1) :
                      Distance(l_objects[j], timestamp_value)
                          > Distance(l_objects[i], timestamp_value)
    IN l_objects[i]

\* if not timestamp_tol: timestamp_tol = pd.Timedelta("1s")
Tolerance(timestamp_tol) ==
    IF Truthy(timestamp_tol) THEN pd_Timedelta(timestamp_tol)
    ELSE DefaultTolSeconds

\* Mutant of TimestampOutOfTolerance: ">=" for ">".
TimestampOutOfTolerance_AtLeast(closest, timestamp_value, tol) ==
    pd_Timestamp(closest.timestamp) - pd_Timestamp(timestamp_value) >= tol

\* The condition under which verify_object calls fail("Timestamp
\* verification failed.").
TimestampOutOfTolerance(closest, timestamp_value, tol) ==
    pd_Timestamp(closest.timestamp) - pd_Timestamp(timestamp_value) > tol

\* The body of verify_object, given what find_objects returns and what
\* verify_user_object returns for each timestamp.
verify_object(vbc, object_cid, object_cid_stdin, timestamp, timestamp_stdin, timestamp_tol, stdin, l_objects, rets) ==
    LET l_stdin_text_stream == split(stdin)
        c == get_object_cid(object_cid, object_cid_stdin, l_stdin_text_stream)
        t == get_timestamp(timestamp, timestamp_stdin, c.rest)
        found == Call("find_objects", NONE, c.value, NONE)
        closest == closest_object(l_objects, t.value)
        verified == Call("verify_user_object", get_default_user(vbc), c.value,
                         closest.timestamp)
        ret == rets[closest.timestamp]
        e1 == [NoExt EXCEPT !.l_objects = l_objects]
        e2 == [e1 EXCEPT !.ret = IF ret THEN "true" ELSE "false"]
    IN IF c.err # "none" THEN Outcome(c.err, <<c.msg>>, <<>>, NoExt)
       ELSE IF t.err # "none" THEN Outcome(t.err, <<t.msg>>, <<>>, NoExt)
       ELSE IF vbc = NoClient THEN Outcome("usage", <<MsgNoClient>>, <<>>, NoExt)
       ELSE IF Len(l_objects) = 0
       THEN fail(MsgNoObjects, <<found>>, e1)
       ELSE IF ~ret
       THEN fail(MsgCommitmentFailed, <<found, verified>>, e2)
       ELSE IF Truthy(timestamp_tol) /\ ~TimedeltaParses(timestamp_tol)
       THEN Outcome("exception", <<MsgValueError>>, <<found, verified>>, e2)
       ELSE IF TimestampOutOfTolerance(closest, t.value, Tolerance(timestamp_tol))
       THEN fail(MsgTimestampFailed, <<found, verified>>, e2)
       ELSE Outcome("ok", <<MsgFound, MsgSucceeded>>, <<found, verified>>, e2)

\* Whether the callback gets as far as the external client.
ReachesClient(vbc, object_cid, object_cid_stdin, timestamp, timestamp_stdin, stdin) ==
    LET c == get_object_cid(object_cid, object_cid_stdin, split(stdin))
    IN /\ RequireExactlyOneCid(object_cid, object_cid_stdin)
       /\ c.err = "none"
       /\ get_timestamp(timestamp, timestamp_stdin, c.rest).err = "none"
       /\ vbc # NoClient

(* Inputs. *)

CidBody == Rep("a", CidLen - 1) \o <<"F">>
Cid1 == <<"0", "x">> \o CidBody
Cid2 == <<"0", "x">> \o Rep("0", CidLen)

CidTexts ==
    { <<>>,                                   \* ""
      Cid1,                                   \* a valid CID
      CidBody,                                \* without the "0x" prefix
      <<" ">> \o Cid1 \o <<"\n">>,            \* padded with whitespace
      <<"0", "X">> \o CidBody,                \* upper-case prefix
      <<"0", "x">> \o Rep("a", CidLen - 1) \o <<"g">>,   \* not hexadecimal
      <<"0", "x">> \o Rep("a", CidLen - 1),   \* one digit short
      <<"0", "x">> \o Rep("a", CidLen + 1)    \* one digit long
    }

TimeTexts == {FormatNumber(n) : n \in 0..MaxTime}

TimestampTexts == {<<>>, <<"x">>} \cup TimeTexts

TolTexts == {<<>>, <<"x">>, <<"0", "s">>, <<"2", "s">>}

StdinTexts ==
    { <<>>,
      Cid1 \o <<"\n">>,
      <<"z">>,
      Cid1 \o <<" ">> \o FormatNumber(1) \o <<"\n">>,
      FormatNumber(1) }

Objects == [timestamp : TimeTexts]

ObjectLists == UNION {[1..n -> Objects] : n \in 0..MaxObjects}

\* A sub-command ends the invocation.
Finish(name, entered, a, o) ==
    /\ pc' = "exit"
    /\ cmd' = name
    /\ ran' = entered
    /\ args' = a
    /\ status' = o.status
    /\ output' = output \o o.output
    /\ calls' = calls \o o.calls
    /\ ext' = o.ext
    /\ UNCHANGED <<cli_flags, environ, config_file, kwargs, ctx_obj>>

\* The add-object sub-command: option constraint, then its callback.
AddObjectCommand(object_cid, object_cid_stdin, stdin, receipt_timestamp) ==
    /\ pc = "group_done"
    /\ LET a == [NoArgs EXCEPT !.object_cid = object_cid,
                               !.object_cid_stdin = object_cid_stdin,
                               !.stdin = stdin]
          o == add_object(ctx_obj, object_cid, object_cid_stdin, stdin,
                          receipt_timestamp)
       IN IF ~RequireExactlyOneCid(object_cid, object_cid_stdin)
          THEN Finish("add_object", FALSE, a,
                      Outcome("usage", <<MsgConstraint>>, <<>>, NoExt))
          ELSE Finish("add_object", TRUE, a, o)

\* The verify-object sub-command: option constraint, then its callback.
VerifyObjectCommand(object_cid, object_cid_stdin, timestamp, timestamp_stdin, timestamp_tol, stdin, l_objects, rets) ==
    /\ pc = "group_done"
    /\ LET a == [object_cid |-> object_cid,
                 object_cid_stdin |-> object_cid_stdin,
                 timestamp |-> timestamp,
                 timestamp_stdin |-> timestamp_stdin,
                 timestamp_tol |-> timestamp_tol,
                 stdin |-> stdin]
          o == verify_object(ctx_obj, object_cid, object_cid_stdin,
                             timestamp, timestamp_stdin, timestamp_tol,
                             stdin, l_objects, rets)
       IN IF ~RequireExactlyOneCid(object_cid, object_cid_stdin)
          THEN Finish("verify_object", FALSE, a,
                      Outcome("usage", <<MsgConstraint>>, <<>>, NoExt))
          ELSE Finish("verify_object", TRUE, a, o)

\* The process ends; the next invocation starts from a fresh process.
NewInvocation ==
    /\ pc = "exit"
    /\ pc' = "start"
    /\ cli_flags' = NoFlags
    /\ environ' = NoEnv
    /\ config_file' = NoEnv
    /\ kwargs' = NoFlags
    /\ ctx_obj' = NoClient
    /\ cmd' = "none"
    /\ ran' = FALSE
    /\ args' = NoArgs
    /\ ext' = NoExt
    /\ calls' = <<>>
    /\ status' = "running"
    /\ output' = <<>>
    /\ UNCHANGED <<service, clock, held>>

----------------------------------------------------------------------------
(* Spec: few configurations, all the sub-command inputs, any answer from   *)
(* the external client.                                                    *)

CommitmentService ==
    /\ pc = "start"
    /\ \E cfg \in FlagConfigurations :
        commitment_service(cfg.flags, cfg.env, cfg.file)

AddObject ==
    /\ pc = "group_done"
    /\ \E object_cid \in CidTexts \cup {NONE}, object_cid_stdin \in BOOLEAN,
       stdin \in StdinTexts, receipt_timestamp \in TimeTexts :
        /\ AddObjectCommand(object_cid, object_cid_stdin, stdin, receipt_timestamp)
        /\ UNCHANGED <<service, clock, held>>

VerifyObject ==
    /\ pc = "group_done"
    /\ \E object_cid \in CidTexts \cup {NONE}, object_cid_stdin \in BOOLEAN,
       timestamp \in TimestampTexts \cup {NONE}, timestamp_stdin \in BOOLEAN,
       timestamp_tol \in TolTexts \cup {NONE}, stdin \in StdinTexts :
        \E l_objects \in
              (IF ReachesClient(ctx_obj, object_cid, object_cid_stdin,
                                timestamp, timestamp_stdin, stdin)
               THEN ObjectLists ELSE {<<>>}) :
          \E ret \in (IF l_objects = <<>> THEN {FALSE} ELSE BOOLEAN) :
            /\ VerifyObjectCommand(object_cid, object_cid_stdin, timestamp,
                                   timestamp_stdin, timestamp_tol, stdin,
                                   l_objects, [x \in TimeTexts |-> ret])
            /\ UNCHANGED <<service, clock, held>>

Next == CommitmentService \/ AddObject \/ VerifyObject \/ NewInvocation

Spec == Init /\ [][Next]_vars

----------------------------------------------------------------------------
(* SpecConfig: all the configurations, few sub-command inputs.             *)

ConfigCommitmentService ==
    /\ pc = "start"
    /\ \E chosen \in SlotChoices :
        \E fill \in [chosen -> BOOLEAN] :
            LET cfg == Configuration(chosen, fill)
            IN commitment_service(cfg.flags, cfg.env, cfg.file)

ConfigAddObject ==
    /\ pc = "group_done"
    /\ \E object_cid \in {NONE, Cid1, <<"z">>}, object_cid_stdin \in BOOLEAN,
       stdin \in {<<>>, Cid1} :
        /\ AddObjectCommand(object_cid, object_cid_stdin, stdin, FormatNumber(1))
        /\ UNCHANGED <<service, clock, held>>

ConfigVerifyObject ==
    /\ pc = "group_done"
    /\ \E object_cid \in {NONE, Cid1}, timestamp \in {NONE, FormatNumber(1)},
       l_objects \in {<<>>, <<[timestamp |-> FormatNumber(1)]>>},
       ret \in BOOLEAN :
        /\ VerifyObjectCommand(object_cid, FALSE, timestamp, FALSE, NONE, <<>>,
                               l_objects, [x \in TimeTexts |-> ret])
        /\ UNCHANGED <<service, clock, held>>

NextConfig ==
    ConfigCommitmentService \/ ConfigAddObject \/ ConfigVerifyObject
    \/ NewInvocation

SpecConfig == Init /\ [][NextConfig]_vars

----------------------------------------------------------------------------
(* SpecService: the external service keeps the commitments add_object      *)
(* made.  A commitment is a timestamped association between a CID and a    *)
(* user; find_objects lists the commitments of a CID, of any user, in the  *)
(* order they were made; verify_user_object tells whether the user made a  *)
(* commitment of the CID at the timestamp.                                 *)

ServiceFindObjects(cid) ==
    LET found == SelectSeq(service, LAMBDA r : r.cid = cid)
    IN [i \in 1..Len(found) |-> [timestamp |-> found[i].timestamp]]

ServiceVerifyUserObject(user, cid, timestamp) ==
    \E i \in 1..Len(service) :
        service[i] = [user |-> user, cid |-> cid, timestamp |-> timestamp]

ServiceCommitmentService ==
    /\ pc = "start"
    /\ \E cfg \in ServiceConfigurations :
        commitment_service(cfg.flags, cfg.env, cfg.file)

\* The commitment is recorded at the service's time, which is no earlier
\* than that of the commitments before it.
ServiceAddObject ==
    /\ pc = "group_done"
    /\ Len(service) < MaxCommitments
    /\ \E object_cid \in {Cid1, Cid2, CidBody}, now \in clock..MaxTime :
        /\ AddObjectCommand(object_cid, FALSE, <<>>, FormatNumber(now))
        /\ clock' = now
        /\ service' =
             IF status' = "ok"
             THEN Append(service, [user |-> get_default_user(ctx_obj),
                                   cid |-> ext'.receipt.objectCid,
                                   timestamp |-> ext'.receipt.timestamp])
             ELSE service
        /\ held' =
             IF status' = "ok"
             THEN held \cup {[vbc |-> ctx_obj, receipt |-> ext'.receipt]}
             ELSE held

ServiceVerifyObject ==
    /\ pc = "group_done"
    /\ \E object_cid \in {Cid1, Cid2}, timestamp \in TimeTexts :
        LET cid == get_object_cid(object_cid, FALSE, <<>>).value
        IN /\ VerifyObjectCommand(
                  object_cid, FALSE, timestamp, FALSE, NONE, <<>>,
                  ServiceFindObjects(cid),
                  [x \in TimeTexts |->
                      ServiceVerifyUserObject(get_default_user(ctx_obj), cid, x)])
           /\ UNCHANGED <<service, clock, held>>

NextService ==
    ServiceCommitmentService \/ ServiceAddObject \/ ServiceVerifyObject
    \/ NewInvocation

SpecService == Init /\ [][NextService]_vars

----------------------------------------------------------------------------
(* Properties. *)

\* The pattern ^0x[0-9a-fA-F]{64}$ as re.match applies it.
CidRegex(s) ==
    LET n == IF Len(s) = 67 /\ s[67] = "\n" THEN 66 ELSE Len(s)
    IN /\ n = 66
       /\ s[1] = "0" /\ s[2] = "x"
       /\ \A i \in 3..66 :
            s[i] \in {"0","1","2","3","4","5","6","7","8","9",
                      "a","b","c","d","e","f","A","B","C","D","E","F"}

\* The CID strings the user supplied to the sub-command.
SuppliedCids ==
    (IF args.object_cid # NONE THEN {args.object_cid} ELSE {})
    \cup (IF args.object_cid_stdin /\ split(args.stdin) # <<>>
          THEN {split(args.stdin)[1]} ELSE {})

\* A sub-command was named and its options parsed: the invocation is over.
SubCommandDone == pc = "exit" /\ cmd \in {"add_object", "verify_object"}

ClientCalled ==
    \E i \in 1..Len(calls) :
        calls[i].method \in {"add_object", "find_objects", "verify_user_object"}

\* The string with surrounding whitespace removed and "0x" put in front
\* when it does not start with it.
WithPrefix(s) ==
    LET t == strip(s)
    IN IF Len(t) >= 2 /\ t[1] = "0" /\ t[2] = "x" THEN t ELSE <<"0", "x">> \o t

\* C1 as stated: a supplied CID string that does not match the pattern ends
\* the command in a usage error, and the client is never called.
C1_Original ==
    SubCommandDone =>
        \A s \in SuppliedCids :
            ~CidRegex(s) => (status = "usage" /\ ~ClientCalled)

\* C1, amended: a supplied CID string that, stripped of surrounding
\* whitespace and given the "0x" prefix when it lacks it, does not match the
\* pattern ends the command in a usage error, and the client is never
\* called.
C1_Amended ==
    SubCommandDone =>
        \A s \in SuppliedCids :
            ~CidRegex(WithPrefix(s)) => (status = "usage" /\ ~ClientCalled)

\* A CID one digit too long, given as a flag, was rejected by the callback.
C1_Witness ==
    /\ SubCommandDone /\ ran
    /\ args.object_cid # NONE
    /\ Len(args.object_cid) = 67
    /\ ~CidRegex(WithPrefix(args.object_cid))
    /\ output = <<MsgInvalidCid>>
    /\ status = "usage" /\ ~ClientCalled

ExactlyOneCidOption ==
    (args.object_cid # NONE /\ ~args.object_cid_stdin)
    \/ (args.object_cid = NONE /\ args.object_cid_stdin)

\* C2: a sub-command's callback is entered only when exactly one of
\* --object-cid and --object-cid-stdin is supplied; with neither or both the
\* command ends in a usage error, exit status non-zero, client never called.
C2_ExactlyOne ==
    SubCommandDone =>
        /\ ran => ExactlyOneCidOption
        /\ ~ExactlyOneCidOption =>
              (status = "usage" /\ ExitCode(status) # 0 /\ ~ClientCalled)

\* Both options were supplied to verify-object, with a valid CID in each.
C2_Witness ==
    /\ SubCommandDone /\ cmd = "verify_object"
    /\ args.object_cid = Cid1 /\ args.object_cid_stdin
    /\ split(args.stdin) # <<>> /\ split(args.stdin)[1] = Cid1
    /\ ~ran /\ status = "usage"

\* The target timestamp verify-object compares against, in seconds.
\* It is --timestamp when given, else the stdin token that follows the CID
\* when the CID was read from stdin too, else the first stdin token.
TargetTime ==
    LET tokens == split(args.stdin)
        text == IF Truthy(args.timestamp) THEN args.timestamp
                ELSE IF Truthy(args.object_cid) THEN tokens[1]
                ELSE tokens[2]
    IN ParseNumber(text)

\* The least distance, in seconds, from the target to a returned commitment.
ClosestDistance ==
    LET target == TargetTime
        d(i) == Abs(ParseNumber(ext.l_objects[i].timestamp) - target)
    IN d(CHOOSE i \in 1..Len(ext.l_objects) :
            \A j \in 1..Len(ext.l_objects) : d(i) <= d(j))

\* The tolerance in force: --timestamp-tol, or 1 second when it is not given.
ToleranceInForce ==
    IF args.timestamp_tol = NONE \/ args.timestamp_tol = <<>> THEN 1
    ELSE ParseNumber(SubSeq(args.timestamp_tol, 1, Len(args.timestamp_tol) - 1))

\* verify-object got commitments from find_objects and TRUE from
\* verify_user_object, and the tolerance is absent or well formed.
VerifiedClosest ==
    /\ SubCommandDone /\ cmd = "verify_object" /\ ran
    /\ ext.l_objects # <<>>
    /\ ext.ret = "true"
    /\ (args.timestamp_tol = NONE \/ TimedeltaParses(args.timestamp_tol))

\* C3 as stated: when the target is further than the tolerance from the
\* closest commitment, in either direction, verify-object fails with exit
\* status 1 and "Timestamp verification failed.".
C3_BothDirections ==
    (VerifiedClosest /\ ClosestDistance > ToleranceInForce) =>
        (ExitCode(status) = 1 /\ output = <<MsgTimestampFailed>>)

\* C4: when the target is within the tolerance of the closest commitment,
\* verify-object exits 0 and prints "Timestamp verification succeeded.".
C4_WithinTolerance ==
    (VerifiedClosest /\ ClosestDistance <= ToleranceInForce) =>
        /\ ExitCode(status) = 0
        /\ output # <<>>
        /\ output[Len(output)] = MsgSucceeded

\* The closest of two commitments lies exactly the default tolerance after
\* the target, and verification succeeded.
C4_Witness ==
    /\ VerifiedClosest
    /\ args.timestamp_tol = NONE
    /\ Len(ext.l_objects) = 2
    /\ ClosestDistance = 1
    /\ \E i \in 1..2 : ParseNumber(ext.l_objects[i].timestamp) = TargetTime + 1
    /\ status = "ok"
    /\ output = <<MsgFound, MsgSucceeded>>

\* The value the claimed precedence gives a setting: the flag's when the
\* flag was supplied, else the environment variable's when it is set, else
\* the config file's.
ByPrecedence(k) ==
    IF cli_flags[k] # NONE THEN cli_flags[k]
    ELSE IF environ[args_config_dict[k]] # NONE
    THEN environ[args_config_dict[k]]
    ELSE config_file[args_config_dict[k]]

ClientBuilt == pc # "start" /\ ctx_obj # NoClient

\* C5 as stated: every value the client is constructed from is the one the
\* precedence flag > environment > config file gives, empty strings
\* included.
C5_Precedence ==
    ClientBuilt =>
        /\ ctx_obj.private_key = ByPrecedence("vb_cs_private_key")
        /\ ctx_obj.kind = "node" =>
             /\ ctx_obj.node_rpc_url = ByPrecedence("vb_cs_node_rpc_url")
             /\ ctx_obj.commitment_service_address = ByPrecedence("vb_cs_address")
        /\ ctx_obj.kind = "forwarder" =>
             /\ ctx_obj.forwarder_url = ByPrecedence("vb_forwarder_url")
             /\ ctx_obj.api_key = ByPrecedence("vb_api_key")

\* C7 as stated: a constructed client has a complete option set.
C7_CompleteOptions ==
    ClientBuilt =>
        \/ /\ ctx_obj.kind = "node"
           /\ Truthy(ctx_obj.node_rpc_url)
           /\ Truthy(ctx_obj.commitment_service_address)
           /\ Truthy(ctx_obj.private_key)
        \/ /\ ctx_obj.kind = "forwarder"
           /\ Truthy(ctx_obj.forwarder_url)
           /\ Truthy(ctx_obj.api_key)

\* C8: once the merge leaves neither a node RPC URL nor a forwarder URL,
\* the invocation has ended in a usage error with non-zero exit status, no
\* client was constructed and no sub-command was entered.
C8_NoUrl ==
    (/\ pc # "start"
     /\ ~Truthy(kwargs["vb_cs_node_rpc_url"])
     /\ ~Truthy(kwargs["vb_forwarder_url"])) =>
        /\ pc = "exit"
        /\ status = "usage" /\ ExitCode(status) # 0
        /\ ctx_obj = NoClient
        /\ cmd = "none" /\ ~ran /\ ~ClientCalled

\* The callback merged an API key and a private key from the environment
\* and the config file, found no URL and raised the usage error.
C8_Witness ==
    /\ pc = "exit"
    /\ cli_flags = NoFlags
    /\ kwargs["vb_api_key"] = <<"E">>
    /\ kwargs["vb_cs_private_key"] = <<"C">>
    /\ ~Truthy(kwargs["vb_cs_node_rpc_url"])
    /\ ~Truthy(kwargs["vb_forwarder_url"])
    /\ output = <<MsgNeedUrl>>
    /\ ctx_obj = NoClient /\ cmd = "none"

FindObjectsCalled ==
    \E i \in 1..Len(calls) : calls[i].method = "find_objects"

\* C9: when find_objects returns an empty list, verify-object ends with
\* "No matching objects found." and a non-zero exit status, never calls
\* verify_user_object and never prints the success line.
C9_NoObjects ==
    (/\ SubCommandDone /\ cmd = "verify_object" /\ ran
     /\ FindObjectsCalled
     /\ ext.l_objects = <<>>) =>
        /\ status = "fail" /\ ExitCode(status) # 0
        /\ output = <<MsgNoObjects>>
        /\ \A i \in 1..Len(calls) : calls[i].method # "verify_user_object"
        /\ \A i \in 1..Len(output) : output[i] # MsgSucceeded

\* verify-object read the CID and the timestamp from stdin, asked
\* find_objects and got nothing.
C9_Witness ==
    /\ SubCommandDone /\ cmd = "verify_object" /\ ran
    /\ args.object_cid_stdin /\ args.timestamp_stdin
    /\ calls = <<Call("find_objects", NONE, Cid1, NONE)>>
    /\ ext.l_objects = <<>>
    /\ output = <<MsgNoObjects>>

\* C10 as stated: add-object against a node service with no private key
\* ends in a usage error and never calls the client's add_object.
C10_KeyRequired ==
    (/\ SubCommandDone /\ cmd = "add_object" /\ ran
     /\ ctx_obj.kind = "node"
     /\ ~Truthy(ctx_obj.private_key)) =>
        /\ status = "usage"
        /\ \A i \in 1..Len(calls) : calls[i].method # "add_object"

\* C6: after add-object printed a receipt with timestamp t for a CID,
\* verify-object with the same configuration, the same CID, --timestamp t
\* and no --timestamp-tol exits 0 and prints the success line.
C6_RoundTrip ==
    (/\ SubCommandDone /\ cmd = "verify_object" /\ ran
     /\ args.timestamp_tol = NONE
     /\ \E h \in held :
          /\ h.vbc = ctx_obj
          /\ h.receipt.objectCid = args.object_cid
          /\ h.receipt.timestamp = args.timestamp) =>
        /\ ExitCode(status) = 0
        /\ output # <<>>
        /\ output[Len(output)] = MsgSucceeded

\* The receipt's commitment is the last of three of its CID, the first of
\* them another user's, and verification succeeded.
C6_Witness ==
    /\ SubCommandDone /\ cmd = "verify_object" /\ ran
    /\ args.timestamp_tol = NONE
    /\ \E h \in held :
          /\ h.vbc = ctx_obj
          /\ h.receipt.objectCid = args.object_cid
          /\ h.receipt.timestamp = args.timestamp
    /\ Len(ext.l_objects) = 3
    /\ service[1].user # get_default_user(ctx_obj)
    /\ service[1].cid = args.object_cid
    /\ service[3].timestamp = args.timestamp
    /\ service[2].timestamp # args.timestamp
    /\ status = "ok"

\* The calls of the external client that carry a CID.
CidCalls == {i \in 1..Len(calls) : calls[i].cid # NONE}

\* C11 as stated: the CID string passed to add_object, find_objects and
\* verify_user_object is identical to the string the user supplied.
C11_Original ==
    SubCommandDone =>
        \A i \in CidCalls : calls[i].cid \in SuppliedCids

\* C11, amended: the CID string passed to add_object, find_objects and
\* verify_user_object is the string the user supplied with surrounding
\* whitespace removed and "0x" put in front when it does not start with it.
C11_Amended ==
    SubCommandDone =>
        \A i \in CidCalls : calls[i].cid \in {WithPrefix(s) : s \in SuppliedCids}

\* verify-object was given 64 hex digits without prefix as --object-cid and
\* passed the prefixed CID to find_objects and to verify_user_object.
C11_Witness ==
    /\ SubCommandDone /\ cmd = "verify_object" /\ ran
    /\ args.object_cid = CidBody
    /\ Len(calls) = 2
    /\ calls[1].method = "find_objects" /\ calls[1].cid = Cid1
    /\ calls[2].method = "verify_user_object" /\ calls[2].cid = Cid1

SuccessLinePrinted == \E i \in 1..Len(output) : output[i] = MsgSucceeded

\* C12 as stated: verify-object prints the success line and exits 0 only if
\* find_objects returned a non-empty list, verify_user_object returned true
\* for one of the returned commitments and that commitment's timestamp is
\* within the tolerance of the target in absolute value; when find_objects
\* returned nothing or verify_user_object returned false the success line
\* is not printed and the exit status is non-zero.
C12_SuccessOnlyIf ==
    (SubCommandDone /\ cmd = "verify_object") =>
        /\ (SuccessLinePrinted /\ ExitCode(status) = 0) =>
              /\ ext.l_objects # <<>>
              /\ ext.ret = "true"
              /\ \E i \in 1..Len(calls), k \in 1..Len(ext.l_objects) :
                    /\ calls[i].method = "verify_user_object"
                    /\ calls[i].timestamp = ext.l_objects[k].timestamp
                    /\ Abs(ParseNumber(calls[i].timestamp) - TargetTime)
                           <= ToleranceInForce
        /\ (FindObjectsCalled /\ (ext.l_objects = <<>> \/ ext.ret = "false")) =>
              (~SuccessLinePrinted /\ ExitCode(status) # 0)

VerifyUserObjectCalls ==
    {i \in 1..Len(calls) : calls[i].method = "verify_user_object"}

\* The position of the first returned commitment at the least distance from
\* the target.
FirstClosest ==
    LET target == TargetTime
        d(k) == Abs(ParseNumber(ext.l_objects[k].timestamp) - target)
    IN CHOOSE k \in 1..Len(ext.l_objects) :
          /\ \A j \in 1..Len(ext.l_objects) : d(k) <= d(j)
          /\ \A j \in 1..(k - 1) : d(j) # d(k)

\* C13: with a non-empty find_objects result verify_user_object is called
\* exactly once, for the default user and the CID, with the timestamp of
\* the first commitment at the least absolute distance from the target; if
\* it returns false the command fails with "Commitment verification
\* failed.".
C13_ClosestOnly ==
    (/\ SubCommandDone /\ cmd = "verify_object" /\ ran
     /\ FindObjectsCalled
     /\ ext.l_objects # <<>>) =>
        /\ Cardinality(VerifyUserObjectCalls) = 1
        /\ \A i \in VerifyUserObjectCalls :
              /\ calls[i].user = ctx_obj.private_key
              /\ calls[i].cid \in {WithPrefix(s) : s \in SuppliedCids}
              /\ calls[i].timestamp = ext.l_objects[FirstClosest].timestamp
        /\ ext.ret = "false" =>
              /\ status = "fail" /\ ExitCode(status) = 1
              /\ output = <<MsgCommitmentFailed>>

\* Two commitments, one second after and one second before the target, both
\* within the default tolerance: the first was the only one verified, it
\* failed, and so did the command.
C13_Witness ==
    /\ SubCommandDone /\ cmd = "verify_object" /\ ran
    /\ args.timestamp = <<"1">> /\ args.timestamp_tol = NONE
    /\ ext.l_objects = <<[timestamp |-> <<"2">>], [timestamp |-> <<"0">>]>>
    /\ ext.ret = "false"
    /\ calls = <<Call("find_objects", NONE, Cid1, NONE),
                 Call("verify_user_object", ctx_obj.private_key, Cid1, <<"2">>)>>
    /\ output = <<MsgCommitmentFailed>>

StdinTokens == split(args.stdin)

\* The CID is read from stdin: --object-cid-stdin without --object-cid.
CidFromStdin == ran /\ args.object_cid_stdin /\ ~Truthy(args.object_cid)

\* The tokens left for the timestamp once the CID is taken.
TokensAfterCid == IF CidFromStdin THEN Tail(StdinTokens) ELSE StdinTokens

\* The CID was accepted and the timestamp is read from stdin:
\* --timestamp-stdin without --timestamp.
TimestampFromStdin ==
    /\ ran /\ cmd = "verify_object"
    /\ args.timestamp_stdin /\ ~Truthy(args.timestamp)
    /\ (CidFromStdin => StdinTokens # <<>>)
    /\ \A s \in SuppliedCids : CidRegex(WithPrefix(s))

\* C14 as stated: stdin tokens are consumed in order, the CID first and the
\* timestamp next; when a stdin option is selected and no token remains the
\* invocation ends in the usage error "Undefined object CID value." or
\* "Undefined timestamp value." and no client method is called.
C14_StdinTokens ==
    SubCommandDone =>
        /\ (CidFromStdin /\ StdinTokens # <<>>) =>
              \A i \in CidCalls : calls[i].cid = WithPrefix(StdinTokens[1])
        /\ (TimestampFromStdin /\ TokensAfterCid # <<>>
               /\ ~IsNumber(TokensAfterCid[1])) =>
              (status = "usage" /\ output = <<MsgInvalidTs>> /\ calls = <<>>)
        /\ (CidFromStdin /\ StdinTokens = <<>>) =>
              (status = "usage" /\ output = <<MsgUndefinedCid>> /\ calls = <<>>)
        /\ (TimestampFromStdin /\ TokensAfterCid = <<>>) =>
              (status = "usage" /\ output = <<MsgUndefinedTs>> /\ calls = <<>>)

AddObjectCalls == {i \in 1..Len(calls) : calls[i].method = "add_object"}

\* C15: verify-object never calls the client's add_object, on any path;
\* add-object calls it at most once, and only with a CID that passed
\* validation.
C15_ReadOnly ==
    SubCommandDone =>
        /\ cmd = "verify_object" => AddObjectCalls = {}
        /\ cmd = "add_object" =>
              /\ Cardinality(AddObjectCalls) <= 1
              /\ \A i \in AddObjectCalls :
                    /\ CidRegex(calls[i].cid)
                    /\ status = "ok"
                    /\ \A j \in 1..Len(output) : output[j] # MsgInvalidCid

\* verify-object went through find_objects and verify_user_object to the
\* success line, and made no commitment.
C15_Witness ==
    /\ SubCommandDone /\ cmd = "verify_object" /\ ran
    /\ status = "ok" /\ SuccessLinePrinted
    /\ Len(calls) = 2
    /\ AddObjectCalls = {}

====
